---- MODULE Spec2Model ----
(***************************************************************************)
(* Model of the Aspia screen capture pipeline:                             *)
(*   ScreenCapturerGDI  (desktop_capture/screen_capturer_gdi.cc)           *)
(*   ScreenUpdater      (host/screen_updater.cc)                           *)
(*   mouseCursorFromHCursor (desktop_capture/win/cursor.cc)                *)
(*   DmiTableEnumerator (system_info/serializer/dmi_impl.cc)               *)
(* The worker thread (ScreenUpdater::run) and its owner (the thread that   *)
(* calls update() and runs the destructor) are interleaved step by step.   *)
(***************************************************************************)
EXTENDS Integers, Sequences, FiniteSets, TLC

\* ------------------------------------------------------------------ bounds
\* Desktops the OS can report as the input desktop: 1..MaxDesktop.
MaxDesktop == 2
\* Screen bounds: origin x in 0..MaxX, width in 1..MaxWidth.
MaxX == 1
MaxWidth == 2
\* Cursor images: width * height in 1..MaxPixels.
MaxPixels == 4
\* Channel values tried by the premultiplication: 255 * i / MaxLevel.
MaxLevel == 3
\* Consecutive applications of alphaMul to one image.
MaxMuls == 2
\* SMBIOS tables: data_.length in 0..MaxTable.
MaxTable == 10

\* ------------------------------------------------------- program constants
\* Number of slots of the frame ring (frame_[kNumFrames]).
kNumFrames == 2

\* A null unique_ptr / a frame slot that holds no frame (frames are modelled
\* by their size, which is at least 1).
Null == 0

Desktops == 1..MaxDesktop
\* QRect(): the null rectangle desktop_dc_rect_ is reset to.
NullRect == [x |-> 0, width |-> 0]
ScreenRects == {[x |-> px, width |-> w] : px \in 0..MaxX, w \in 1..MaxWidth}
FrameIds == 0..(kNumFrames - 1)

\* What the OS answers during one call of prepareCaptureResources /
\* captureImage: the input desktop (and whether its handle is valid), whether
\* SetThreadDesktop succeeds, the full screen rectangle, whether
\* CreateCompatibleDC succeeds, whether each DesktopFrameDIB::create succeeds,
\* whether SelectObject succeeds.
OsAnswers ==
    [input_desktop : Desktops, input_valid : BOOLEAN, set_ok : BOOLEAN,
     screen_rect : ScreenRects, dc_ok : BOOLEAN,
     frame_ok : [FrameIds -> BOOLEAN], select_ok : BOOLEAN]

\* The OS answers of a session whose display configuration stays as it is:
\* the input desktop is the bound one and the screen keeps its rectangle. Every
\* allocation and SelectObject may still fail.
SteadyOsAnswers ==
    {os \in OsAnswers : /\ os.input_desktop = 1
                        /\ os.input_valid /\ os.set_ok
                        /\ os.screen_rect = [x |-> 0, width |-> 1]}

\* The answers to the calls that can be made: an invalid input desktop is
\* never compared nor bound to (line 23), no frame is allocated after a failed
\* CreateCompatibleDC (line 54), none after a failed allocation (line 71).
\* The answers to calls that are not made are fixed.
AskedOsAnswers ==
    {os \in OsAnswers :
        /\ ~os.input_valid => (os.input_desktop = 1 /\ os.set_ok)
        /\ ~os.dc_ok => \A i \in FrameIds : os.frame_ok[i]
        /\ ~os.frame_ok[0] => os.frame_ok[1]}

\* ------------------------------------------------------- ScreenCapturerGDI
\* The object after construction: no resources, thread on its initial desktop.
NewCapturer ==
    [desktop_ |-> 1, desktop_dc_ |-> FALSE, memory_dc_ |-> FALSE,
     desktop_dc_rect_ |-> NullRect,
     frame_ |-> [i \in FrameIds |-> Null],
     differ_ |-> Null, curr_frame_id_ |-> 0]

\* Lines 21-32 with the contexts reset only after a successful rebind.
SwitchDesktopMutant(c, os) ==
    IF os.input_valid /\ c.desktop_ # os.input_desktop /\ os.set_ok
    THEN [c EXCEPT !.desktop_dc_ = FALSE, !.memory_dc_ = FALSE,
                   !.desktop_ = os.input_desktop]
    ELSE c

\* Lines 21-32: switch to the input desktop if it differs from the bound one.
SwitchDesktop(c, os) ==
    IF os.input_valid /\ c.desktop_ # os.input_desktop
    THEN [c EXCEPT !.desktop_dc_ = FALSE, !.memory_dc_ = FALSE,
                   !.desktop_ = IF os.set_ok THEN os.input_desktop ELSE @]
    ELSE c

\* Lines 34-43 with the reset of line 40 lost.
CheckBoundsMutant(c, os) ==
    IF os.screen_rect # c.desktop_dc_rect_
    THEN [c EXCEPT !.desktop_dc_ = FALSE, !.desktop_dc_rect_ = NullRect]
    ELSE c

\* Lines 34-43: drop the contexts when the display bounds have changed.
CheckBounds(c, os) ==
    IF os.screen_rect # c.desktop_dc_rect_
    THEN [c EXCEPT !.desktop_dc_ = FALSE, !.memory_dc_ = FALSE,
                   !.desktop_dc_rect_ = NullRect]
    ELSE c

\* Lines 65-72: the allocation loop over the ring. Slot i is assigned the new
\* frame (or nullptr when create fails); the loop returns at the first failure
\* and leaves the later slots as they were. Result: <<ok, frame_>>.
AllocFrames(frame, os) ==
    LET size == os.screen_rect.width
        f0 == [frame EXCEPT ![0] = IF os.frame_ok[0] THEN size ELSE Null]
        f1 == [f0 EXCEPT ![1] = IF os.frame_ok[1] THEN size ELSE Null]
    IN  IF ~os.frame_ok[0] THEN <<FALSE, f0>>
        ELSE IF ~os.frame_ok[1] THEN <<FALSE, f1>>
        ELSE <<TRUE, f1>>

\* Lines 45-75: (re)create the resources when the source DC is absent.
\* Result: [ok, c, created] where created says the block was entered.
CreateResources(c, os) ==
    IF c.desktop_dc_ THEN [ok |-> TRUE, c |-> c, created |-> FALSE]
    ELSE LET c1 == [c EXCEPT !.desktop_dc_ = TRUE, !.memory_dc_ = os.dc_ok]
         IN  IF ~os.dc_ok THEN [ok |-> FALSE, c |-> c1, created |-> TRUE]
             ELSE LET al == AllocFrames(c1.frame_, os)
                      c2 == [c1 EXCEPT !.desktop_dc_rect_ = os.screen_rect,
                                       !.frame_ = al[2]]
                  IN  IF ~al[1] THEN [ok |-> FALSE, c |-> c2, created |-> TRUE]
                      ELSE [ok |-> TRUE,
                            c |-> [c2 EXCEPT !.differ_ = os.screen_rect.width],
                            created |-> TRUE]

\* ScreenCapturerGDI::prepareCaptureResources, lines 17-78.
prepareCaptureResources(c, os) ==
    CreateResources(CheckBounds(SwitchDesktop(c, os), os), os)

\* Lines 85-87: the slot before the current one, modulo the ring size.
PrevFrameId(curr) ==
    IF curr - 1 < 0 THEN kNumFrames - 1 ELSE curr - 1

\* captureImage with the index advanced before the result of
\* prepareCaptureResources is looked at.
captureImageMutant(c, os) ==
    LET p == prepareCaptureResources(c, os)
        c1 == p.c
        prev_frame_id == PrevFrameId(c1.curr_frame_id_)
        c2 == [c1 EXCEPT !.curr_frame_id_ = prev_frame_id]
        missing == c1.frame_[prev_frame_id] = Null
                   \/ c1.frame_[c1.curr_frame_id_] = Null
                   \/ c1.differ_ = Null
        base == [prepared |-> p.ok, created |-> p.created,
                 prev_id |-> prev_frame_id, curr_id |-> c1.curr_frame_id_]
    IN  IF ~p.ok
        THEN base @@ [outcome |-> "null", c |-> c2, wrote |-> FALSE,
                      differ_ran |-> FALSE]
        ELSE IF missing
        THEN base @@ [outcome |-> "crash", c |-> c1, wrote |-> FALSE,
                      differ_ran |-> FALSE]
        ELSE base @@ [outcome |-> "frame", c |-> c2,
                      wrote |-> c1.memory_dc_ /\ os.select_ok,
                      differ_ran |-> TRUE]

\* ScreenCapturerGDI::captureImage, lines 80-114.
\* Result: [outcome, c, ...] with outcome
\*   "null"   prepareCaptureResources failed, nullptr returned (line 83);
\*   "crash"  a null frame slot or a null differ is dereferenced
\*            (lines 92, 97, 107): an access violation ends the process;
\*   "frame"  curr_frame returned (line 113).
\* wrote: BitBlt copied the screen into the current slot (SelectObject on a
\* missing memory DC fails, and so does it when the OS says so).
captureImage(c, os) ==
    LET p == prepareCaptureResources(c, os)
        c1 == p.c
        prev_frame_id == PrevFrameId(c1.curr_frame_id_)
        missing == c1.frame_[prev_frame_id] = Null
                   \/ c1.frame_[c1.curr_frame_id_] = Null
                   \/ c1.differ_ = Null
        base == [prepared |-> p.ok, created |-> p.created,
                 prev_id |-> prev_frame_id, curr_id |-> c1.curr_frame_id_]
    IN  IF ~p.ok
        THEN base @@ [outcome |-> "null", c |-> c1, wrote |-> FALSE,
                      differ_ran |-> FALSE]
        ELSE IF missing
        THEN base @@ [outcome |-> "crash", c |-> c1, wrote |-> FALSE,
                      differ_ran |-> FALSE]
        ELSE base @@ [outcome |-> "frame",
                      c |-> [c1 EXCEPT !.curr_frame_id_ = prev_frame_id],
                      wrote |-> c1.memory_dc_ /\ os.select_ok,
                      differ_ran |-> TRUE]

\* --------------------------------------------------- cursor reconstruction
\* A 32-bit pixel, seen through RGBQUAD as the code of lines 152 and 206 does:
\* rgbBlue is the byte of bits 0-7, rgbReserved (alpha) the one of bits 24-31.
\* Line 136: RGBA puts r in bits 0-7, g in 8-15, b in 16-23, a in 24-31.
RGBA(r, g, b, a) ==
    [rgbBlue |-> r % 256, rgbGreen |-> g % 256, rgbRed |-> b % 256,
     rgbReserved |-> a % 256]

\* Lines 142-146 (RGB of wingdi.h leaves bits 24-31 clear).
kPixelRgbaBlack == RGBA(0, 0, 0, 255)
kPixelRgbaWhite == RGBA(255, 255, 255, 255)
kPixelRgbaTransparent == RGBA(0, 0, 0, 0)
kPixelRgbWhite == RGBA(255, 255, 255, 0)

\* Bitwise exclusive or of two n-bit values.
RECURSIVE XorBits(_, _, _)
XorBits(a, b, n) ==
    IF n = 0 THEN 0
    ELSE ((a + b) % 2) + 2 * XorBits(a \div 2, b \div 2, n - 1)

\* operator^ on two quint32 pixels.
XorPixel(p, q) ==
    [rgbBlue |-> XorBits(p.rgbBlue, q.rgbBlue, 8),
     rgbGreen |-> XorBits(p.rgbGreen, q.rgbGreen, 8),
     rgbRed |-> XorBits(p.rgbRed, q.rgbRed, 8),
     rgbReserved |-> XorBits(p.rgbReserved, q.rgbReserved, 8)]

\* Lines 150-166: some pixel has a non-zero alpha byte.
hasAlphaChannel(data) ==
    \E i \in DOMAIN data : data[i].rgbReserved # 0

\* addCursorOutline that looks at the top, left and right neighbours only.
RECURSIVE OutlineNoBottom(_, _, _, _)
OutlineNoBottom(i, width, height, data) ==
    IF i > width * height THEN data
    ELSE LET x == (i - 1) % width
             y == (i - 1) \div width
             black == \/ y > 0 /\ data[i - width] = kPixelRgbaBlack
                      \/ x > 0 /\ data[i - 1] = kPixelRgbaBlack
                      \/ x < width - 1 /\ data[i + 1] = kPixelRgbaBlack
             pixel == IF data[i] = kPixelRgbaTransparent /\ black
                      THEN kPixelRgbaWhite ELSE data[i]
         IN  OutlineNoBottom(i + 1, width, height, [data EXCEPT ![i] = pixel])

addCursorOutlineMutant(width, height, data) ==
    OutlineNoBottom(1, width, height, data)

\* Lines 172-194: the pass over the image, row by row, in place: pixel i is
\* tested against its neighbours as they are when the pass reaches it.
RECURSIVE OutlineFrom(_, _, _, _)
OutlineFrom(i, width, height, data) ==
    IF i > width * height THEN data
    ELSE LET x == (i - 1) % width
             y == (i - 1) \div width
             black == \/ y > 0 /\ data[i - width] = kPixelRgbaBlack
                      \/ y < height - 1 /\ data[i + width] = kPixelRgbaBlack
                      \/ x > 0 /\ data[i - 1] = kPixelRgbaBlack
                      \/ x < width - 1 /\ data[i + 1] = kPixelRgbaBlack
             pixel == IF data[i] = kPixelRgbaTransparent /\ black
                      THEN kPixelRgbaWhite ELSE data[i]
         IN  OutlineFrom(i + 1, width, height, [data EXCEPT ![i] = pixel])

\* addCursorOutline, lines 170-195.
addCursorOutline(width, height, data) ==
    OutlineFrom(1, width, height, data)

\* alphaMul that divides by 0x100 (a shift) instead of 0xFF.
alphaMulMutant(data) ==
    [i \in DOMAIN data |->
        LET from == data[i]
        IN  [from EXCEPT !.rgbBlue = (@ * from.rgbReserved) \div 256,
                         !.rgbGreen = (@ * from.rgbReserved) \div 256,
                         !.rgbRed = (@ * from.rgbReserved) \div 256]]

\* alphaMul, lines 199-213: each colour byte becomes byte * alpha / 0xFF in
\* integer arithmetic (the product fits in an int); alpha is left alone.
alphaMul(data) ==
    [i \in DOMAIN data |->
        LET from == data[i]
        IN  [from EXCEPT !.rgbBlue = (@ * from.rgbReserved) \div 255,
                         !.rgbGreen = (@ * from.rgbReserved) \div 255,
                         !.rgbRed = (@ * from.rgbReserved) \div 255]]

\* Lines 342-357 with the reverse-screen case lost: a pixel under a white mask
\* is always made transparent.
ReconstructPixelMutant(mask, dst) ==
    IF mask = kPixelRgbWhite
    THEN [pixel |-> kPixelRgbaTransparent, outline |-> FALSE]
    ELSE [pixel |-> XorPixel(kPixelRgbaBlack, dst), outline |-> FALSE]

\* Lines 342-357: one pixel of the loop. Result: the new *dst and whether
\* add_outline is set by this pixel.
ReconstructPixel(mask, dst) ==
    IF mask = kPixelRgbWhite
    THEN IF dst # kPixelRgbaTransparent
         THEN [pixel |-> kPixelRgbaBlack, outline |-> TRUE]
         ELSE [pixel |-> kPixelRgbaTransparent, outline |-> FALSE]
    ELSE [pixel |-> XorPixel(kPixelRgbaBlack, dst), outline |-> FALSE]

\* What GetIconInfo, GetObjectW and GetDIBits hand over for one HCURSOR:
\* whether there is a colour bitmap, the dimensions of the mask bitmap and
\* the two bitmaps as 32bpp pixels, top-down. A cursor without a colour
\* bitmap has a mask of double height (AND half above XOR half).
\* Mask pixels are black or white with alpha 0; colour pixels are black,
\* white or another colour with alpha 0, or carry an alpha.
MaskPixels == {kPixelRgbaTransparent, kPixelRgbWhite}
ColorPixels ==
    {kPixelRgbaTransparent, kPixelRgbWhite, RGBA(0, 85, 170, 0),
     RGBA(255, 255, 255, 128)}
CursorSizes ==
    {wh \in (1..MaxPixels) \X (1..MaxPixels) : wh[1] * wh[2] <= MaxPixels}
CursorInputs ==
    UNION {
        [is_color : {TRUE}, bmWidth : {wh[1]}, bmHeight : {wh[2]},
         mask_data : [1..(wh[1] * wh[2]) -> MaskPixels],
         color_data : [1..(wh[1] * wh[2]) -> ColorPixels]]
        \cup
        [is_color : {FALSE}, bmWidth : {wh[1]}, bmHeight : {2 * wh[2]},
         mask_data : [1..(2 * wh[1] * wh[2]) -> MaskPixels],
         color_data : {<<>>}]
        : wh \in CursorSizes}

\* mouseCursorFromHCursor, lines 218-377, past the OS calls. Result: the
\* image of the MouseCursor with its size, and the intermediate values:
\*   mask      the AND mask the loop reads (the first width*height pixels)
\*   source    image as filled at lines 281-315
\*   combined  image after the loop of lines 327-362
\*   outlined  image after lines 364-367
mouseCursorFromHCursor(in) ==
    LET is_color == in.is_color
        width == in.bmWidth
        height == IF is_color THEN in.bmHeight ELSE in.bmHeight \div 2
        n == width * height
        source == IF is_color THEN in.color_data
                  ELSE [i \in 1..n |-> in.mask_data[n + i]]
        has_alpha == is_color /\ hasAlphaChannel(source)
        rec == [i \in 1..n |-> ReconstructPixel(in.mask_data[i], source[i])]
        add_outline == ~has_alpha /\ \E i \in 1..n : rec[i].outline
        combined == IF has_alpha THEN source
                    ELSE [i \in 1..n |-> rec[i].pixel]
        outlined == IF add_outline
                    THEN addCursorOutline(width, height, combined)
                    ELSE combined
    IN  [stage |-> "done", width |-> width, height |-> height,
         has_alpha |-> has_alpha,
         mask |-> [i \in 1..n |-> in.mask_data[i]],
         source |-> source, combined |-> combined,
         add_outline |-> add_outline, outlined |-> outlined,
         image |-> alphaMul(outlined)]
\* ------------------------------------------------------ DmiTableEnumerator
\* Pointers into smbios_table_data are offsets from its first byte; nullptr.
NullPtr == -1

\* The bytes a table is made of here: 0 (a string terminator, a structure
\* length below 4), 4 (the shortest valid structure length, a type, a string
\* character) and 127 (the end-of-table type, a length beyond the table).
DmiBytes == {0, 4, 127}
DmiTables == UNION {[1..n -> DmiBytes] : n \in 0..MaxTable}

\* p[0] for the pointer at offset p. A byte at or beyond the length is not
\* part of the table: some non-zero value the buffer happens to hold.
ByteAt(data, p) == IF p + 1 \in DOMAIN data THEN data[p + 1] ELSE 255

\* Lines 78-82 with the bound of the scan off by one.
RECURSIVE ScanTerminatorMutant(_, _, _, _)
ScanTerminatorMutant(data, length, next, reads) ==
    IF next < length
    THEN IF ByteAt(data, next) # 0
         THEN ScanTerminatorMutant(data, length, next + 1, reads \cup {next})
         ELSE IF ByteAt(data, next + 1) # 0
         THEN ScanTerminatorMutant(data, length, next + 1,
                                   reads \cup {next, next + 1})
         ELSE [next |-> next, reads |-> reads \cup {next, next + 1}]
    ELSE [next |-> next, reads |-> reads]

\* Lines 78-82: move next_ to the two null bytes that end the strings, or to
\* the last byte of the table. next_[1] is read only when next_[0] is 0.
\* Result: next_ and the offsets read on the way.
RECURSIVE ScanTerminator(_, _, _, _)
ScanTerminator(data, length, next, reads) ==
    IF next + 1 < length
    THEN IF ByteAt(data, next) # 0
         THEN ScanTerminator(data, length, next + 1, reads \cup {next})
         ELSE IF ByteAt(data, next + 1) # 0
         THEN ScanTerminator(data, length, next + 1,
                             reads \cup {next, next + 1})
         ELSE [next |-> next, reads |-> reads \cup {next, next + 1}]
    ELSE [next |-> next, reads |-> reads]

\* DmiTableEnumerator::advance, lines 51-91, on the table data of data_.length
\* bytes with next_ = next. Result: current_, next_ and the offsets read.
advance(data, next) ==
    LET current == next
        end == Len(data)
        at_end == [current |-> NullPtr, next |-> NullPtr]
    IN  IF current + 4 <= end
        THEN LET table_type == ByteAt(data, current)
                 table_length == ByteAt(data, current + 1)
                 header == {current, current + 1}
             IN  IF table_length < 4 \/ table_type = 127
                 THEN at_end @@ [reads |-> header]
                 ELSE LET scan == ScanTerminator(data, end,
                                                 current + table_length, {})
                      IN  [current |-> current, next |-> scan.next + 2,
                           reads |-> header \cup scan.reads]
        ELSE at_end @@ [reads |-> {}]

\* ----------------------------------------------------------------- state
VARIABLES
    capturer,          \* the ScreenCapturerGDI object owned by run()
    config,            \* config_: video_encoding, cursor feature, and whether
                       \* the encoder factory of that encoding succeeds
    video_encoder,     \* "unset" before the switch, then "ok" or "null"
    cursor_on,         \* cursor_capturer && cursor_encoder (lines 459-463)
    pc,                \* position of the worker thread in run()
    video_packet,      \* local of run(): the packet is non-null
    cursor_shape,      \* local of run(): the shape is non-null
    terminate_,        \* ScreenUpdater::terminate_
    update_required_,  \* ScreenUpdater::update_required_
    update_lock_,      \* holder of ScreenUpdater::update_lock_
    notified,          \* a notify_one reached the worker while it was blocked
    owner,             \* position of the owner thread
    mouse_cursor,      \* one conversion of an HCURSOR: its input, then its
                       \* result with the intermediate images
    enumerator,        \* a DmiTableEnumerator: data_, current_, next_
    \* history variables (never read by the program)
    last,              \* the most recent captureImage call
    last_written,      \* slot written by the latest successful captureImage
    ring_created,      \* the ring was fully allocated at least once
    posted,            \* the kinds of UpdateEvent posted so far
    error_events,      \* ErrorEvents posted so far
    unacked,           \* an UpdateEvent was posted and the consumer has not
                       \* called update() since
    term_pc,           \* pc of the worker when terminate_ was set
    after_term,        \* captures started / events posted after terminate_
    cycle              \* what the current cycle of the loop did so far

capVars == <<capturer, last, last_written, ring_created>>
cfgVars == <<config, video_encoder, cursor_on>>
syncVars == <<terminate_, update_required_, update_lock_, notified>>
localVars == <<video_packet, cursor_shape>>
cursorVars == <<mouse_cursor>>
dmiVars == <<enumerator>>
histVars == <<posted, error_events, unacked, term_pc, after_term, cycle>>
vars == <<capVars, cfgVars, pc, localVars, syncVars, owner, histVars,
         cursorVars, dmiVars>>

Encodings == {"VP8", "VP9", "ZLIB", "UNKNOWN"}
Inc(n) == IF n < 2 THEN n + 1 ELSE 2
\* History only: no capture returned a frame since the ring was allocated
\* (NoSlot); the latest capture returned a frame it had not written (Stale).
NoSlot == kNumFrames
Stale == kNumFrames + 1

NoCall ==
    [called |-> FALSE, prepared |-> FALSE, created |-> FALSE, prev_id |-> 0,
     curr_id |-> 0, outcome |-> "null", wrote |-> FALSE, differ_ran |-> FALSE,
     screen_rect |-> NullRect, prev_failed |-> FALSE, prev_frame |-> FALSE,
     expect_prev |-> NoSlot, rebind |-> "none", assertion |-> "skipped"]

\* History only: Q_ASSERT(!memory_dc_) of line 47 in the call: "skipped"
\* when the block of line 45 is not entered, else "held" or "failed".
AssertionOf(c, os) ==
    LET c1 == CheckBounds(SwitchDesktop(c, os), os)
    IN  IF c1.desktop_dc_ THEN "skipped"
        ELSE IF c1.memory_dc_ THEN "failed" ELSE "held"

\* History only: the call found another input desktop and SetThreadDesktop
\* failed; "alloc_ok" when the OS then granted every allocation.
RebindOf(c, os) ==
    IF os.input_valid /\ c.desktop_ # os.input_desktop /\ ~os.set_ok
    THEN IF os.dc_ok /\ \A i \in FrameIds : os.frame_ok[i]
         THEN "alloc_ok" ELSE "alloc_failed"
    ELSE "none"
\* History of one cycle of the loop:
\*   frame            captureImage returned a frame (line 472)
\*   dirty            the updated region of that frame is not empty
\*   video_encoded    video_encoder->encode was called (line 478)
\*   packet           ... and returned a packet
\*   cursor_captured  captureCursor was called (line 482)
\*   cursor_ok        ... and returned a cursor
\*   cursor_encoded   cursor_encoder->encode was called (line 484)
\*   published        an UpdateEvent was posted (line 497); events counts them
\*   delayed          wait_for(lock, delay) was entered (line 512)
\*   early_update     an update() made before the post was still pending
\*                    (update_required_ set) when line 494 was reached
NewCycle ==
    [frame |-> FALSE, dirty |-> FALSE, video_encoded |-> FALSE,
     packet |-> FALSE, cursor_captured |-> FALSE, cursor_ok |-> FALSE,
     cursor_encoded |-> FALSE, published |-> FALSE, events |-> 0,
     delayed |-> FALSE, early_update |-> FALSE]

\* No HCURSOR is being converted.
NoCursor == [stage |-> "none"]
\* No DmiTableEnumerator exists.
NoEnumerator == [stage |-> "none"]

\* ScreenUpdater::ScreenUpdater, lines 403-408: the thread is started.
Init ==
    /\ capturer = NewCapturer
    /\ config \in [video_encoding : Encodings, cursor_shape : BOOLEAN,
                   create_ok : BOOLEAN]
    /\ video_encoder = "unset"
    /\ cursor_on = FALSE
    /\ pc = "start"
    /\ video_packet = FALSE
    /\ cursor_shape = FALSE
    /\ terminate_ = FALSE
    /\ update_required_ = FALSE
    /\ update_lock_ = "free"
    /\ notified = FALSE
    /\ owner = "running"
    /\ last = NoCall
    /\ last_written = NoSlot
    /\ ring_created = FALSE
    /\ posted = {}
    /\ error_events = 0
    /\ unacked = FALSE
    /\ term_pc = "none"
    /\ after_term = [captures |-> 0, posted |-> 0]
    /\ cycle = NewCycle
    /\ mouse_cursor = NoCursor
    /\ enumerator = NoEnumerator

\* The object as the constructor leaves it, for one configuration whose
\* encoder exists; the cursor conversion aside.
Constructed ==
    /\ capturer = NewCapturer
    /\ config = [video_encoding |-> "ZLIB", cursor_shape |-> TRUE,
                 create_ok |-> TRUE]
    /\ video_encoder = "unset"
    /\ cursor_on = FALSE
    /\ pc = "start"
    /\ video_packet = FALSE
    /\ cursor_shape = FALSE
    /\ terminate_ = FALSE
    /\ update_required_ = FALSE
    /\ update_lock_ = "free"
    /\ notified = FALSE
    /\ owner = "running"
    /\ last = NoCall
    /\ last_written = NoSlot
    /\ ring_created = FALSE
    /\ posted = {}
    /\ error_events = 0
    /\ unacked = FALSE
    /\ term_pc = "none"
    /\ after_term = [captures |-> 0, posted |-> 0]
    /\ cycle = NewCycle


\* ------------------------------------------------------ ScreenUpdater::run
\* Lines 429-448: the factory of the configured encoding; none for an
\* encoding the switch does not know. A factory may return nullptr.
CreateEncoder(cfg) ==
    IF cfg.video_encoding \in {"VP8", "VP9", "ZLIB"} /\ cfg.create_ok
    THEN "ok" ELSE "null"

\* Lines 450-454 with the return lost: the error is posted and the loop runs.
SelectEncoderMutant ==
    /\ pc = "start"
    /\ video_encoder' = CreateEncoder(config)
    /\ error_events' = IF video_encoder' = "null" THEN Inc(error_events)
                       ELSE error_events
    /\ pc' = "loop"
    /\ cursor_on' = config.cursor_shape
    /\ UNCHANGED <<dmiVars, cursorVars, capVars, config, localVars, syncVars, owner, posted,
                   unacked, term_pc, after_term, cycle>>

\* Lines 426-465: set-up. Without an encoder one ErrorEvent is posted and
\* run() returns; otherwise the cursor capturer and encoder are created when
\* the feature is configured and the loop is entered.
SelectEncoder ==
    /\ pc = "start"
    /\ video_encoder' = CreateEncoder(config)
    /\ IF video_encoder' = "null"
       THEN /\ error_events' = Inc(error_events)
            /\ pc' = "done"
            /\ cursor_on' = cursor_on
       ELSE /\ error_events' = error_events
            /\ pc' = "loop"
            /\ cursor_on' = config.cursor_shape
    /\ UNCHANGED <<dmiVars, cursorVars, capVars, config, localVars, syncVars, owner, posted,
                   unacked, term_pc, after_term, cycle>>

\* Line 467 with the test of terminate_ lost.
LoopConditionMutant == TRUE

\* Line 467: the loop condition.
LoopCondition == ~terminate_

\* Lines 467-469: top of the loop; scheduler.beginCapture() starts a cycle.
LoopCheck ==
    /\ pc = "loop"
    /\ IF LoopCondition
       THEN /\ pc' = "capture"
            /\ cycle' = NewCycle
            /\ after_term' = [after_term EXCEPT !.captures =
                                 IF terminate_ THEN Inc(@) ELSE @]
       ELSE /\ pc' = "done"
            /\ UNCHANGED <<cycle, after_term>>
    /\ UNCHANGED <<dmiVars, cursorVars, capVars, cfgVars, localVars, syncVars, owner, posted,
                   error_events, unacked, term_pc>>

\* One call of captureImage on the capturer, with the OS answering os, and
\* the record of that call.
CaptureStep(os, r) ==
    /\ capturer' = r.c
    /\ last' = [called |-> TRUE, prepared |-> r.prepared,
                created |-> r.created, prev_id |-> r.prev_id,
                curr_id |-> r.curr_id, outcome |-> r.outcome,
                wrote |-> r.wrote, differ_ran |-> r.differ_ran,
                screen_rect |-> os.screen_rect,
                prev_failed |-> last.called /\ ~last.prepared,
                prev_frame |-> last.called /\ last.outcome = "frame",
                expect_prev |-> last_written,
                rebind |-> RebindOf(capturer, os),
                assertion |-> AssertionOf(capturer, os)]
    /\ last_written' =
         IF r.outcome = "frame"
         THEN (IF r.wrote THEN r.curr_id ELSE Stale)
         ELSE IF r.created THEN NoSlot ELSE last_written
    /\ ring_created' = (ring_created \/ (r.created /\ r.prepared))

\* Lines 471-472: screen_capturer->captureImage() and the test of its result.
CaptureImage ==
    /\ pc = "capture"
    /\ \E os \in SteadyOsAnswers :
         LET r == captureImage(capturer, os)
         IN  /\ CaptureStep(os, r)
             /\ pc' = CASE r.outcome = "null" -> "idle_lock"
                        [] r.outcome = "crash" -> "crashed"
                        [] OTHER -> "encode"
    /\ UNCHANGED <<dmiVars, cursorVars, cfgVars, localVars, syncVars, owner, histVars>>

\* Line 487 with the test lost: every captured frame is published.
ShouldPublishMutant(packet, shape) == TRUE

\* Line 487 with the packet left out of the test.
ShouldPublishShapeOnly(packet, shape) == shape

\* Line 487: an event is posted when a packet or a shape was produced.
ShouldPublish(packet, shape) == packet \/ shape

\* Line 477 with the test lost: every captured frame is encoded.
EncodesVideoMutant(dirty) == TRUE

\* Line 477: the frame is encoded when its updated region is not empty.
EncodesVideo(dirty) == dirty

\* Line 483 with the test lost: the cursor encoder is called on nullptr too.
EncodesCursorMutant(cursor) == TRUE

\* Line 483: the cursor is encoded when captureCursor returned one.
EncodesCursor(cursor) == cursor

\* Lines 474-487: encode the frame when its dirty region is not empty,
\* capture and encode the cursor when the feature is on.
\*   dirty      !screen_frame->updatedRegion().isEmpty()
\*   packet_ok  video_encoder->encode returns a packet
\*   cursor_ok  captureCursor returns a cursor
\*   shape_ok   cursor_encoder->encode returns a shape
Encode ==
    /\ pc = "encode"
    /\ \E dirty, packet_ok, cursor_ok, shape_ok \in BOOLEAN :
         LET venc == EncodesVideo(dirty)
             ccap == cursor_on
             cenc == ccap /\ EncodesCursor(cursor_ok)
         IN  /\ video_packet' = (venc /\ packet_ok)
             /\ cursor_shape' = (cenc /\ cursor_ok /\ shape_ok)
             /\ cycle' = [cycle EXCEPT !.frame = TRUE,
                                       !.dirty = dirty,
                                       !.video_encoded = venc,
                                       !.packet = venc /\ packet_ok,
                                       !.cursor_captured = ccap,
                                       !.cursor_ok = ccap /\ cursor_ok,
                                       !.cursor_encoded = cenc]
    /\ pc' = IF ShouldPublish(video_packet', cursor_shape')
             THEN "publish" ELSE "idle_lock"
    /\ UNCHANGED <<dmiVars, cursorVars, capVars, cfgVars, syncVars, owner, posted, error_events,
                   unacked, term_pc, after_term>>

\* Lines 489-497 with the store of line 494 lost: update_required_ keeps what
\* an earlier update() left in it.
PublishKeepsFlag ==
    /\ pc = "publish"
    /\ update_lock_ = "free"
    /\ update_lock_' = "worker"
    /\ posted' = posted \cup {[video |-> video_packet, cursor |-> cursor_shape]}
    /\ video_packet' = FALSE
    /\ cursor_shape' = FALSE
    /\ unacked' = TRUE
    /\ after_term' = [after_term EXCEPT !.posted =
                         IF terminate_ THEN Inc(@) ELSE @]
    /\ cycle' = [cycle EXCEPT !.published = TRUE, !.events = Inc(@),
                              !.early_update = update_required_]
    /\ pc' = "wait"
    /\ UNCHANGED <<dmiVars, cursorVars, capVars, cfgVars, terminate_, update_required_,
                   notified, owner, error_events, term_pc>>

\* Lines 489-497: take the lock, clear update_required_, post the event (the
\* packet and the shape are moved into it).
Publish ==
    /\ pc = "publish"
    /\ update_lock_ = "free"
    /\ update_lock_' = "worker"
    /\ update_required_' = FALSE
    /\ posted' = posted \cup {[video |-> video_packet, cursor |-> cursor_shape]}
    /\ video_packet' = FALSE
    /\ cursor_shape' = FALSE
    /\ unacked' = TRUE
    /\ after_term' = [after_term EXCEPT !.posted =
                         IF terminate_ THEN Inc(@) ELSE @]
    /\ cycle' = [cycle EXCEPT !.published = TRUE, !.events = Inc(@),
                              !.early_update = update_required_]
    /\ pc' = "wait"
    /\ UNCHANGED <<dmiVars, cursorVars, capVars, cfgVars, terminate_, notified, owner,
                   error_events, term_pc>>

\* Line 499 with the test of terminate_ inverted.
WaitContinuesMutant == ~update_required_ /\ terminate_

\* Line 499: the worker keeps waiting for the acknowledgement.
WaitContinues == ~update_required_ /\ ~terminate_

\* Lines 499-501: the test of the wait loop, under the lock. Either
\* update_condition_.wait(lock) releases the lock and blocks, or the loop is
\* left and the lock is released at the end of the block.
WaitCheck ==
    /\ pc = "wait"
    /\ update_lock_ = "worker"
    /\ update_lock_' = "free"
    /\ pc' = IF WaitContinues THEN "wait_blocked" ELSE "idle_lock"
    /\ UNCHANGED <<dmiVars, cursorVars, capVars, cfgVars, localVars, terminate_, update_required_,
                   notified, owner, histVars>>

\* Line 500: wait(lock) returns after a notify_one, with the lock held.
WaitNotified ==
    /\ pc = "wait_blocked"
    /\ notified
    /\ update_lock_ = "free"
    /\ update_lock_' = "worker"
    /\ notified' = FALSE
    /\ pc' = "wait"
    /\ UNCHANGED <<dmiVars, cursorVars, capVars, cfgVars, localVars, terminate_, update_required_,
                   owner, histVars>>

\* Line 500: wait(lock) may also return spuriously.
WaitSpurious ==
    /\ pc = "wait_blocked"
    /\ ~notified
    /\ update_lock_ = "free"
    /\ update_lock_' = "worker"
    /\ pc' = "wait"
    /\ UNCHANGED <<dmiVars, cursorVars, capVars, cfgVars, localVars, terminate_, update_required_,
                   notified, owner, histVars>>

\* Lines 504-505 with the store of line 505 lost.
IdleLockKeepsFlag ==
    /\ pc = "idle_lock"
    /\ update_lock_ = "free"
    /\ update_lock_' = "worker"
    /\ pc' = "delay"
    /\ UNCHANGED <<dmiVars, cursorVars, capVars, cfgVars, localVars, terminate_,
                   update_required_, notified, owner, histVars>>

\* Lines 504-505: take the lock again and clear update_required_.
IdleLock ==
    /\ pc = "idle_lock"
    /\ update_lock_ = "free"
    /\ update_lock_' = "worker"
    /\ update_required_' = FALSE
    /\ pc' = "delay"
    /\ UNCHANGED <<dmiVars, cursorVars, capVars, cfgVars, localVars, terminate_, notified, owner,
                   histVars>>

\* Line 507: the worker keeps waiting for the scheduler's delay.
DelayContinues == ~update_required_ /\ ~terminate_

\* Lines 507-512: the test of the delay loop, under the lock. Either
\* wait_for(lock, delay) releases the lock and blocks, or the loop is left,
\* the lock is released and the next iteration starts.
DelayCheck ==
    /\ pc = "delay"
    /\ update_lock_ = "worker"
    /\ update_lock_' = "free"
    /\ pc' = IF DelayContinues THEN "delay_blocked" ELSE "loop"
    /\ cycle' = [cycle EXCEPT !.delayed = @ \/ DelayContinues]
    /\ UNCHANGED <<dmiVars, cursorVars, capVars, cfgVars, localVars, terminate_, update_required_,
                   notified, owner, posted, error_events, unacked, term_pc,
                   after_term>>

\* Lines 512-513 with the break lost: after a timeout the loop test is made
\* again, under the lock.
DelayTimeoutNoBreak ==
    /\ pc = "delay_blocked"
    /\ update_lock_ = "free"
    /\ update_lock_' = "worker"
    /\ notified' = FALSE
    /\ pc' = "delay"
    /\ UNCHANGED <<dmiVars, cursorVars, capVars, cfgVars, localVars, terminate_, update_required_,
                   owner, histVars>>

\* Lines 504-513 with the lock declared outside the loop of line 467: the
\* break leaves the delay loop with the mutex still held.
DelayTimeoutKeepsLock ==
    /\ pc = "delay_blocked"
    /\ update_lock_ = "free"
    /\ update_lock_' = "worker"
    /\ notified' = FALSE
    /\ pc' = "loop"
    /\ UNCHANGED <<dmiVars, cursorVars, capVars, cfgVars, localVars, terminate_, update_required_,
                   owner, histVars>>

\* Lines 512-513: wait_for times out; break, the lock is released.
DelayTimeout ==
    /\ pc = "delay_blocked"
    /\ update_lock_ = "free"
    /\ notified' = FALSE
    /\ pc' = "loop"
    /\ UNCHANGED <<dmiVars, cursorVars, capVars, cfgVars, localVars, terminate_, update_required_,
                   update_lock_, owner, histVars>>

\* Line 512: wait_for returns no_timeout after a notify_one.
DelayNotified ==
    /\ pc = "delay_blocked"
    /\ notified
    /\ update_lock_ = "free"
    /\ update_lock_' = "worker"
    /\ notified' = FALSE
    /\ pc' = "delay"
    /\ UNCHANGED <<dmiVars, cursorVars, capVars, cfgVars, localVars, terminate_, update_required_,
                   owner, histVars>>

\* Line 512: wait_for returns no_timeout spuriously.
DelaySpurious ==
    /\ pc = "delay_blocked"
    /\ ~notified
    /\ update_lock_ = "free"
    /\ update_lock_' = "worker"
    /\ pc' = "delay"
    /\ UNCHANGED <<dmiVars, cursorVars, capVars, cfgVars, localVars, terminate_, update_required_,
                   notified, owner, histVars>>

\* ------------------------------------------------------- the owner thread
\* A crash of the worker ends the process: the owner stops too.
Alive == pc # "crashed"

\* ScreenUpdater::update, lines 417-422, as one step under the lock.
update ==
    /\ update_lock_ = "free"
    /\ update_required_' = TRUE
    /\ notified' = (pc \in {"wait_blocked", "delay_blocked"})
    /\ UNCHANGED <<update_lock_>>

\* The consumer acknowledges (at any time, as often as it likes).
Update ==
    /\ Alive
    /\ owner = "running"
    /\ update
    /\ unacked' = FALSE
    /\ UNCHANGED <<dmiVars, cursorVars, capVars, cfgVars, pc, localVars, terminate_, owner, posted,
                   error_events, term_pc, after_term, cycle>>

\* ScreenUpdater::~ScreenUpdater, line 412: terminate_ = true, one store made
\* without the lock; the worker sees it at its next read of the flag.
DtorSetTerminate ==
    /\ Alive
    /\ owner = "running"
    /\ terminate_' = TRUE
    /\ term_pc' = pc
    /\ owner' = "dtor_update"
    /\ UNCHANGED <<dmiVars, cursorVars, capVars, cfgVars, pc, localVars, update_required_,
                   update_lock_, notified, posted, error_events, unacked,
                   after_term, cycle>>

\* Line 413 lost: the destructor sets the flag and waits, waking nobody.
DtorUpdateMutant ==
    /\ Alive
    /\ owner = "dtor_update"
    /\ owner' = "dtor_wait"
    /\ UNCHANGED <<dmiVars, cursorVars, capVars, cfgVars, pc, localVars, syncVars, histVars>>

\* ScreenUpdater::~ScreenUpdater, line 413: update().
DtorUpdate ==
    /\ Alive
    /\ owner = "dtor_update"
    /\ update
    /\ owner' = "dtor_wait"
    /\ UNCHANGED <<dmiVars, cursorVars, capVars, cfgVars, pc, localVars, terminate_, posted,
                   error_events, unacked, term_pc, after_term, cycle>>

\* ScreenUpdater::~ScreenUpdater, line 414: wait() returns once run() has.
DtorWait ==
    /\ owner = "dtor_wait"
    /\ pc = "done"
    /\ owner' = "destroyed"
    /\ UNCHANGED <<dmiVars, cursorVars, capVars, cfgVars, pc, localVars, syncVars, histVars>>

Next ==
    \/ SelectEncoder
    \/ LoopCheck
    \/ CaptureImage
    \/ Encode
    \/ Publish
    \/ WaitCheck
    \/ WaitNotified
    \/ WaitSpurious
    \/ IdleLock
    \/ DelayCheck
    \/ DelayTimeout
    \/ DelayNotified
    \/ DelaySpurious
    \/ Update
    \/ DtorSetTerminate
    \/ DtorUpdate
    \/ DtorWait

\* The pipeline: the worker and its owner interleaved, in a session whose
\* display configuration is steady (SteadyOsAnswers).
Spec == Init /\ [][Next]_vars

\* The capturer on its own: run() calls captureImage once per iteration of its
\* loop (line 471) and nothing else of the loop touches the capturer, so the
\* rest of the iteration is skipped here. The display configuration changes
\* freely between the calls.
CaptureCall ==
    /\ pc = "capture"
    /\ \E os \in AskedOsAnswers :
         LET r == captureImage(capturer, os)
         IN  /\ CaptureStep(os, r)
             /\ pc' = IF r.outcome = "crash" THEN "crashed" ELSE "loop"
    /\ UNCHANGED <<dmiVars, cursorVars, cfgVars, localVars, syncVars, owner, histVars>>

CapturerNext ==
    \/ SelectEncoder
    \/ LoopCheck
    \/ CaptureCall

\* The capturer of a session whose encoder exists.
CapturerInit ==
    /\ Constructed
    /\ mouse_cursor = NoCursor
    /\ enumerator = NoEnumerator

CapturerSpec == CapturerInit /\ [][CapturerNext]_vars

\* The worker thread is scheduled; a spurious wake-up is never owed. The
\* destructor, once entered, runs on. The consumer owes no acknowledgement
\* and the owner need not destroy the object.
WorkerStep ==
    \/ SelectEncoder \/ LoopCheck \/ CaptureImage \/ Encode \/ Publish
    \/ WaitCheck \/ WaitNotified \/ IdleLock \/ DelayCheck \/ DelayTimeout
    \/ DelayNotified

FairSpec ==
    /\ Spec
    /\ WF_vars(WorkerStep)
    /\ WF_vars(DtorUpdate)
    /\ WF_vars(DtorWait)

\* The delay of line 509 is what is left of the capture interval, so it
\* shrinks with every return of wait_for and a wait_for that is entered again
\* and again does time out: the timeout is strongly fair.
IdleFairSpec ==
    /\ FairSpec
    /\ SF_vars(DelayTimeout)

\* ------------------------------------------------- cursor conversion alone
\* One HCURSOR of the OS is about to be converted.
CursorInit ==
    /\ Constructed
    /\ enumerator = NoEnumerator
    /\ mouse_cursor \in {[stage |-> "input", in |-> in] : in \in CursorInputs}

\* mouseCursorFromHCursor, lines 218-377: nullptr when GetIconInfo, GetObjectW
\* or GetDIBits fails, the converted cursor otherwise.
ConvertCursor ==
    /\ mouse_cursor.stage = "input"
    /\ \E os_ok \in BOOLEAN :
         mouse_cursor' = IF os_ok THEN mouseCursorFromHCursor(mouse_cursor.in)
                         ELSE [stage |-> "null"]
    /\ UNCHANGED <<dmiVars, capVars, cfgVars, pc, localVars, syncVars, owner,
                   histVars>>

CursorNext ==
    \/ ConvertCursor

CursorSpec == CursorInit /\ [][CursorNext]_vars

\* ------------------------------------------------------ alphaMul on its own
Bytes == {(255 * i) \div MaxLevel : i \in 0..MaxLevel}
AlphaPixels ==
    [rgbBlue : Bytes, rgbGreen : Bytes, rgbRed : Bytes, rgbReserved : Bytes]

\* An image of one pixel; results: the image, then what each application of
\* alphaMul made of it.
AlphaInit ==
    /\ Constructed
    /\ enumerator = NoEnumerator
    /\ mouse_cursor \in {[stage |-> "alpha", results |-> << <<px>> >>] :
                             px \in AlphaPixels}

\* alphaMul applied to the latest image.
AlphaMulCall ==
    /\ mouse_cursor.stage = "alpha"
    /\ Len(mouse_cursor.results) <= MaxMuls
    /\ mouse_cursor' =
         [mouse_cursor EXCEPT !.results =
             Append(@, alphaMul(@[Len(@)]))]
    /\ UNCHANGED <<dmiVars, capVars, cfgVars, pc, localVars, syncVars, owner,
                   histVars>>

AlphaNext ==
    \/ AlphaMulCall

AlphaSpec == AlphaInit /\ [][AlphaNext]_vars

\* ------------------------------------------------- DmiTableEnumerator alone
\* DmiTableEnumerator::DmiTableEnumerator, lines 43-49, for every table the
\* firmware can hand over; current_ and next_ stay null when readSmBios
\* fails.
\*   advances  calls of advance() so far
\*   reads     offsets read by the latest advance()
\*   before    next_ as it was before the latest advance()
DmiInit ==
    /\ Constructed
    /\ mouse_cursor = NoCursor
    /\ enumerator \in
         {[stage |-> "enumerating", data |-> d, current |-> 0, next |-> 0,
           advances |-> 0, reads |-> {}, before |-> 0] : d \in DmiTables}
         \cup
         {[stage |-> "enumerating", data |-> <<>>, current |-> NullPtr,
           next |-> NullPtr, advances |-> 0, reads |-> {}, before |-> NullPtr]}

\* One step of the loop that enumerates the tables: advance() is called as
\* long as the enumerator is not at its end (current_ is not null).
Advance ==
    /\ enumerator.stage = "enumerating"
    /\ enumerator.current # NullPtr
    /\ LET r == advance(enumerator.data, enumerator.next)
       IN  enumerator' = [enumerator EXCEPT !.current = r.current,
                                            !.next = r.next,
                                            !.reads = r.reads,
                                            !.before = enumerator.next,
                                            !.advances = @ + 1]
    /\ UNCHANGED <<cursorVars, capVars, cfgVars, pc, localVars, syncVars,
                   owner, histVars>>

DmiNext ==
    \/ Advance

DmiSpec == DmiInit /\ [][DmiNext]_vars

\* The enumerating loop runs on: advance() is called again as long as the
\* enumerator is not at its end.
DmiFairSpec ==
    /\ DmiSpec
    /\ WF_vars(Advance)


\* ------------------------------------------------------------ properties
InWait == {"wait", "wait_blocked"}

\* C1: after an UpdateEvent was posted the worker stays in the WAIT of lines
\* 499-500 (it captures nothing and posts nothing) for as long as the consumer
\* has not called update() since that post and termination was not requested.
C1_BlockedUntilAck ==
    (unacked /\ ~terminate_) => pc \in InWait

\* The worker is blocked in wait(lock) on an event nobody acknowledged.
C1_Witness ==
    /\ unacked /\ ~terminate_
    /\ pc = "wait_blocked"
    /\ ~update_required_

\* C2 as stated: no UpdateEvent is posted after a termination request,
\* wherever the worker is when the request arrives.
C2_NoPublishAfterTerminate ==
    terminate_ => after_term.posted = 0

\* C2 amended: after a termination request the worker starts no new cycle and
\* posts at most one further UpdateEvent, the one of the cycle in progress,
\* and only when the request arrived between the loop test and the post
\* (during capture or encode); none when it arrived at the top of the loop,
\* in WAIT or in the delay wait.
C2_AtMostTheCycleInProgress ==
    terminate_ =>
        /\ after_term.captures = 0
        /\ after_term.posted <= 1
        /\ after_term.posted = 1 => term_pc \in {"capture", "encode", "publish"}

\* Termination was requested during the capture, one more event was posted
\* and run() has returned.
C2_Witness ==
    /\ terminate_ /\ term_pc = "capture"
    /\ after_term.posted = 1
    /\ pc = "done"

\* C3: when termination is requested while the worker is in WAIT on an event
\* the consumer has not acknowledged, run() eventually returns, and no
\* UpdateEvent is posted after the request.
C3_TerminateUnblocksWait ==
    /\ (term_pc \in InWait /\ unacked) ~> (pc = "done")
    /\ [](term_pc \in InWait => after_term.posted = 0)

\* The destructor found the worker blocked on an unacknowledged event and has
\* joined it.
C3_Witness ==
    /\ term_pc = "wait_blocked" /\ unacked
    /\ pc = "done" /\ owner = "destroyed"

\* C4: every UpdateEvent posted carries a video packet or a cursor shape.
C4_EventNeverEmpty ==
    \A e \in posted : e.video \/ e.cursor

\* Events of all three kinds were posted.
C4_Witness ==
    /\ [video |-> TRUE, cursor |-> FALSE] \in posted
    /\ [video |-> FALSE, cursor |-> TRUE] \in posted
    /\ [video |-> TRUE, cursor |-> TRUE] \in posted

\* The resource set is complete and was created for the rectangle r.
ResourcesValidFor(c, r) ==
    /\ c.desktop_dc_ /\ c.memory_dc_
    /\ c.desktop_dc_rect_ = r
    /\ \A i \in FrameIds : c.frame_[i] = r.width
    /\ c.differ_ = r.width

\* C5: whenever prepareCaptureResources returns true, both contexts, both
\* frame slots and the differ exist and were created for the screen bounds of
\* that call.
C5_PreparedMeansValid ==
    (last.called /\ last.prepared) => ResourcesValidFor(capturer, last.screen_rect)

\* C6: a call that follows a failed prepareCaptureResources attempts the
\* creation again, and no call reaches the copy and diff step with a context,
\* a frame slot or the differ missing.
C6_FailureIsRetried ==
    /\ pc # "crashed"
    /\ last.prev_failed => last.created
    /\ last.outcome = "frame" => capturer.memory_dc_

\* C7: once the ring was created, both slots hold a frame and the two frames
\* have the same size.
C7_RingOfTwoEqualSlots ==
    ring_created =>
        /\ \A i \in FrameIds : capturer.frame_[i] # Null
        /\ capturer.frame_[0] = capturer.frame_[1]

\* C8: a call in which prepareCaptureResources fails returns nullptr, does not
\* run the differ and leaves curr_frame_id_ as it was; the cycle of that call
\* encodes nothing, captures no cursor and posts nothing.
C8_FailedPrepareSkipsCycle ==
    (last.called /\ ~last.prepared) =>
        /\ last.outcome = "null"
        /\ ~last.differ_ran
        /\ capturer.curr_frame_id_ = last.curr_id
        /\ ~cycle.video_encoded /\ ~cycle.cursor_captured /\ ~cycle.published

\* The cycle of a failed prepareCaptureResources has reached the delay wait.
C8_Witness ==
    /\ last.called /\ ~last.prepared
    /\ pc = "delay_blocked"

\* C9: the current and the previous slot are the two distinct slots; a
\* capture that returns a frame has written the current slot; and without a
\* reallocation since the preceding capture that returned a frame, the slot
\* given to the differ as previous is the one that capture wrote.
C9_PreviousIsLastWritten ==
    /\ capturer.curr_frame_id_ \in FrameIds
    /\ PrevFrameId(capturer.curr_frame_id_) \in FrameIds \ {capturer.curr_frame_id_}
    /\ last.outcome = "frame" =>
          /\ last.wrote
          /\ (~last.created /\ last.expect_prev # NoSlot)
                => last.prev_id = last.expect_prev

\* C10: without a video encoder (unsupported encoding, or a factory that
\* returns none) exactly one ErrorEvent is posted, run() has returned, and
\* nothing was captured and no UpdateEvent posted.
C10_NoEncoderNoLoop ==
    video_encoder = "null" =>
        /\ error_events = 1
        /\ pc = "done"
        /\ ~last.called
        /\ posted = {}

\* An unsupported encoding: the error is posted and the object destroyed.
C10_Witness ==
    /\ video_encoder = "null" /\ config.video_encoding = "UNKNOWN"
    /\ error_events = 1
    /\ owner = "destroyed"

\* The worker positions of lines 504-514, after the publish block.
IdlePath == {"idle_lock", "delay", "delay_blocked"}

\* C11: a worker that reaches the delay wait of lines 504-514 in a cycle that
\* posted nothing starts the next cycle (or sees a termination request),
\* whether or not the consumer ever calls update(): it is never blocked for
\* good on the idle path.
C11_IdleCycleRestarts ==
    (pc \in IdlePath /\ ~cycle.published /\ ~terminate_)
        ~> (pc = "capture" \/ terminate_)

\* A cycle whose capture failed posted nothing, no event was ever posted, and
\* the next cycle has begun with update_required_ still clear: the worker left
\* the delay wait by its timeout, not by an update().
C11_Witness ==
    /\ pc = "capture"
    /\ last.called /\ last.outcome = "null"
    /\ posted = {}
    /\ ~update_required_ /\ ~terminate_

\* C12: with the cursor feature off, a cycle whose frame has an empty updated
\* region calls no video encoder and posts no UpdateEvent; it goes to the
\* delay wait of lines 504-514, and unless termination was requested it has
\* entered wait_for before the next cycle starts.
C12_CleanFrameIsSilent ==
    (~config.cursor_shape /\ cycle.frame /\ ~cycle.dirty) =>
        /\ ~cycle.video_encoded /\ ~cycle.packet
        /\ ~cycle.published /\ cycle.events = 0
        /\ pc \in IdlePath \cup {"loop", "done"}
        /\ (pc = "loop" /\ ~terminate_) => cycle.delayed

\* Two captures in a row returned a frame, the second one unchanged; nothing
\* was ever posted and the worker is back at the top of the loop after its
\* delay wait.
C12_Witness ==
    /\ ~config.cursor_shape /\ cycle.frame /\ ~cycle.dirty
    /\ last.prev_frame
    /\ posted = {}
    /\ cycle.delayed /\ pc = "loop" /\ ~terminate_

\* C13: with the cursor feature off, a cycle whose frame has a non-empty
\* updated region and whose encoder returns a packet posts exactly one
\* UpdateEvent, with the packet and without a shape; and no event ever posted
\* carries a shape.
C13_ChangedFramePublishesVideo ==
    ~config.cursor_shape =>
        /\ \A e \in posted : e.video /\ ~e.cursor
        /\ ~cycle.cursor_captured
        /\ (cycle.dirty /\ cycle.packet) =>
              \/ pc = "publish" /\ cycle.events = 0
              \/ /\ pc # "publish" /\ cycle.events = 1
                 /\ [video |-> TRUE, cursor |-> FALSE] \in posted

\* The event of a changed frame was posted and the worker waits for its
\* acknowledgement.
C13_Witness ==
    /\ ~config.cursor_shape /\ cycle.dirty /\ cycle.packet
    /\ cycle.events = 1
    /\ posted = {[video |-> TRUE, cursor |-> FALSE]}
    /\ pc = "wait_blocked"

\* C14: the worker does not hold update_lock_ while it captures or encodes
\* (so update() can run then); it holds it only at the flag tests of the two
\* wait loops, entered from the flag store and the post of lines 489-497 and
\* from the flag store of lines 504-505.
C14_LockOnlyAroundFlags ==
    /\ pc \in {"capture", "encode"} => update_lock_ = "free"
    /\ update_lock_ = "worker" => pc \in {"wait", "delay"}

\* The destructor set terminate_ while the worker was capturing and its
\* update() has returned while the worker has not yet finished encoding.
C14_Witness ==
    /\ term_pc = "capture" /\ owner = "dtor_wait"
    /\ pc = "encode"
    /\ update_required_ /\ update_lock_ = "free"

\* A converted cursor whose transparency was rebuilt from the mask.
Rebuilt == mouse_cursor.stage = "done" /\ ~mouse_cursor.has_alpha
Pixels == 1..(mouse_cursor.width * mouse_cursor.height)
\* Pixel i fell in the fourth case: mask = 1 and a non-zero colour.
ReverseScreen(i) ==
    /\ mouse_cursor.mask[i] = kPixelRgbWhite
    /\ mouse_cursor.source[i] # kPixelRgbaTransparent
\* Pixels i and j are neighbours (top, bottom, left, right) in the image.
Adjacent(i, j) ==
    LET w == mouse_cursor.width
    IN  \/ j = i - w \/ j = i + w
        \/ j = i - 1 /\ (i - 1) % w # 0
        \/ j = i + 1 /\ i % w # 0

\* C15: without an alpha channel every pixel follows the table: mask 0 and
\* colour 0 give opaque black, mask 0 and white give opaque white, mask 1 and
\* colour 0 give transparent, mask 1 and a non-zero colour give opaque black
\* and set add_outline; the outline pass runs exactly when some pixel fell
\* in that fourth case.
C15_FourCaseTable ==
    Rebuilt =>
        /\ \A i \in Pixels :
              LET mask == mouse_cursor.mask[i]
                  color == mouse_cursor.source[i]
                  out == mouse_cursor.combined[i]
              IN  /\ (mask = kPixelRgbaTransparent /\ color = kPixelRgbaTransparent)
                        => out = kPixelRgbaBlack
                  /\ (mask = kPixelRgbaTransparent /\ color = kPixelRgbWhite)
                        => out = kPixelRgbaWhite
                  /\ (mask = kPixelRgbWhite /\ color = kPixelRgbaTransparent)
                        => out = kPixelRgbaTransparent /\ out.rgbReserved = 0
                  /\ ReverseScreen(i)
                        => out = kPixelRgbaBlack /\ mouse_cursor.add_outline
        /\ mouse_cursor.add_outline <=> \E i \in Pixels : ReverseScreen(i)
        /\ mouse_cursor.outlined =
              IF mouse_cursor.add_outline
              THEN addCursorOutline(mouse_cursor.width, mouse_cursor.height,
                                    mouse_cursor.combined)
              ELSE mouse_cursor.combined

\* One image holds a pixel of each of the four cases.
C15_Witness ==
    /\ Rebuilt
    /\ \E i, j, k, l \in Pixels :
          /\ mouse_cursor.mask[i] = kPixelRgbaTransparent
          /\ mouse_cursor.source[i] = kPixelRgbaTransparent
          /\ mouse_cursor.mask[j] = kPixelRgbaTransparent
          /\ mouse_cursor.source[j] = kPixelRgbWhite
          /\ mouse_cursor.mask[k] = kPixelRgbWhite
          /\ mouse_cursor.source[k] = kPixelRgbaTransparent
          /\ ReverseScreen(l)
          /\ mouse_cursor.image[l] = kPixelRgbaBlack

\* C16 as stated: every pixel of the fourth case comes out opaque black and
\* has a neighbour that was transparent before the outline pass and is
\* opaque white after it.
C16_OutlineAlwaysAdded ==
    Rebuilt =>
        \A i \in Pixels : ReverseScreen(i) =>
            /\ mouse_cursor.image[i] = kPixelRgbaBlack
            /\ \E j \in Pixels :
                  /\ Adjacent(i, j)
                  /\ mouse_cursor.combined[j] = kPixelRgbaTransparent
                  /\ mouse_cursor.image[j] = kPixelRgbaWhite

\* C16 amended: every pixel of the fourth case comes out opaque black, and
\* the pixels the outline pass turns opaque white are exactly the pixels that
\* were transparent before the pass and have an opaque black neighbour, be it
\* of the fourth case or of the first; every other pixel is left as it was.
\* A fourth-case pixel without a transparent neighbour gets no outline.
C16_OutlineWhereTransparent ==
    Rebuilt =>
        /\ \A i \in Pixels : ReverseScreen(i) =>
              mouse_cursor.image[i] = kPixelRgbaBlack
        /\ \A j \in Pixels :
              LET painted ==
                    /\ mouse_cursor.add_outline
                    /\ mouse_cursor.combined[j] = kPixelRgbaTransparent
                    /\ \E i \in Pixels :
                          /\ Adjacent(i, j)
                          /\ mouse_cursor.combined[i] = kPixelRgbaBlack
              IN  mouse_cursor.image[j] =
                    IF painted THEN kPixelRgbaWhite
                    ELSE mouse_cursor.combined[j]

\* A 2x2 image: a fourth-case pixel with one transparent neighbour, which is
\* repainted, and one opaque neighbour, which is not.
C16_Witness ==
    /\ Rebuilt
    /\ mouse_cursor.width = 2 /\ mouse_cursor.height = 2
    /\ ReverseScreen(1)
    /\ mouse_cursor.combined[3] = kPixelRgbaTransparent
    /\ mouse_cursor.image[3] = kPixelRgbaWhite
    /\ mouse_cursor.combined[2] = kPixelRgbaWhite
    /\ mouse_cursor.image[4] = kPixelRgbaTransparent

\* Each colour byte of pixel p is at most its alpha.
Premultiplied(p) ==
    /\ p.rgbBlue <= p.rgbReserved
    /\ p.rgbGreen <= p.rgbReserved
    /\ p.rgbRed <= p.rgbReserved
\* The i-th image of the run of alphaMul calls (1: the input).
Result(i) == mouse_cursor.results[i][1]
Applied == Len(mouse_cursor.results) - 1

PastEncode == {"publish"} \cup InWait \cup IdlePath

\* C18: the cursor is captured in every cycle in which the feature is on,
\* whatever captureImage returned, and in no cycle in which it is off; the
\* cursor encoder is called exactly when the capture returned a cursor.
C18_CursorAlwaysAttempted ==
    pc \in PastEncode =>
        /\ cycle.cursor_captured <=> cursor_on
        /\ cycle.cursor_encoded <=> (cycle.cursor_captured /\ cycle.cursor_ok)

\* C19 as stated: wait_for of line 512 is entered only in cycles that posted
\* no event.
C19_DelayOnlyWhenIdle ==
    cycle.delayed => ~cycle.published

\* C19 amended: every cycle, posting or not, goes through lines 504-514: the
\* worker is back at the top of the loop, termination not requested, only
\* after it has entered wait_for in that cycle; after a post that means
\* after the acknowledgement (or a termination request) ended WAIT.
C19_DelayInEveryCycle ==
    (pc = "loop" /\ last.called /\ ~terminate_) => cycle.delayed

\* A cycle posted an event, the consumer acknowledged it, and the worker has
\* still gone through the delay wait before the next cycle.
C19_Witness ==
    /\ pc = "loop" /\ ~terminate_
    /\ cycle.published /\ ~unacked
    /\ cycle.delayed

\* C20: a call that finds another input desktop and cannot bind to it still
\* drops the contexts and enters the creation block; when the OS grants the
\* allocations prepareCaptureResources returns true with a complete resource
\* set for the screen bounds of the call and captureImage returns a frame;
\* when it does not, the call returns nullptr.
C20_FailedRebindStillCaptures ==
    /\ last.rebind # "none" => last.created
    /\ last.rebind = "alloc_ok" =>
          /\ last.prepared /\ last.outcome = "frame"
          /\ ResourcesValidFor(capturer, last.screen_rect)
    /\ last.rebind = "alloc_failed" =>
          ~last.prepared /\ last.outcome = "null"

\* A capture that returned a frame was followed by one that found another
\* input desktop, failed to bind to it and returned a frame all the same.
C20_Witness ==
    /\ last.rebind = "alloc_ok"
    /\ last.prev_frame
    /\ last.outcome = "frame" /\ last.wrote

\* C21: an update() made before the post of a cycle does not end the WAIT of
\* that post: while the worker is in WAIT with update_required_ set and no
\* termination request, the consumer has called update() since the post; and
\* once it has, the worker leaves that WAIT.
C21_AckNeitherEarlyNorLost ==
    /\ []((pc \in InWait /\ update_required_ /\ ~terminate_) => ~unacked)
    /\ (pc \in InWait /\ ~unacked) ~> (pc \notin InWait)

\* An update() was pending when the event was posted, and the worker is
\* blocked on that event all the same.
C21_Witness ==
    /\ cycle.early_update
    /\ pc = "wait_blocked" /\ unacked
    /\ ~update_required_ /\ ~terminate_

\* C23: Q_ASSERT(!memory_dc_) of line 47 holds in every call that reaches it,
\* and between the calls the memory DC is absent whenever the source DC is.
C23_AssertionNeverFails ==
    /\ last.assertion # "failed"
    /\ ~capturer.desktop_dc_ => ~capturer.memory_dc_

\* A call returned a frame; the next one found another input desktop, could
\* not bind to it, dropped both contexts, passed the assertion and then
\* failed to create the memory DC: the source DC is present without it.
C23_Witness ==
    /\ last.prev_frame
    /\ last.rebind = "alloc_failed"
    /\ last.assertion = "held"
    /\ capturer.desktop_dc_ /\ ~capturer.memory_dc_

\* The state left by a call of advance().
Advanced == enumerator.stage = "enumerating" /\ enumerator.advances >= 1

\* C22: each advance() either sets current_ (and next_) to null or leaves
\* current_ at a header that lies wholly inside the table, at the place next_
\* pointed to, with next_ strictly beyond it; it reads no byte at or beyond
\* start + length; the number of calls is bounded by the length of the table,
\* and the enumeration reaches current_ == nullptr.
C22_AdvanceProgressesAndEnds ==
    /\ [](Advanced =>
            /\ \/ enumerator.current = NullPtr /\ enumerator.next = NullPtr
               \/ /\ enumerator.current = enumerator.before
                  /\ enumerator.current >= 0
                  /\ enumerator.current + 4 <= Len(enumerator.data)
                  /\ enumerator.next > enumerator.current
            /\ \A p \in enumerator.reads :
                  p >= 0 /\ p < Len(enumerator.data)
            /\ 6 * enumerator.advances <= Len(enumerator.data) + 8)
    /\ (enumerator.stage = "enumerating")
          ~> (enumerator.stage = "enumerating" /\ enumerator.current = NullPtr)

\* A table without end marker: two structures were enumerated, the second
\* one left next_ beyond the end of the table, and the third call ended the
\* enumeration.
C22_Witness ==
    /\ enumerator.stage = "enumerating"
    /\ enumerator.advances = 3
    /\ enumerator.before > Len(enumerator.data)
    /\ enumerator.current = NullPtr
    /\ \A p \in DOMAIN enumerator.data : enumerator.data[p] # 127

====
